---- MODULE Spec2Model ----
(***************************************************************************)
(* A model of the pickling functions of sciris/sc_fileio.py: save, load,   *)
(* dumpstr, loadstr, the byte source (_load_filestr), the chain of         *)
(* unpickling strategies (_unpickler) with its class resolvers, and the    *)
(* shared ledger of failures (Failed.failure_info).                        *)
(*                                                                         *)
(* Byte strings are sequences of tokens.  A pickle is a sequence of        *)
(* opcodes that a stack machine executes; a container wraps it in a magic  *)
(* number that the matching decompressor demands.  A file name is a        *)
(* sequence of characters; a module name is a sequence of components.      *)
(***************************************************************************)
EXTENDS Integers, Sequences, FiniteSets, TLC

VARIABLES
    fs,            \* the files of the working directory: name -> bytes, or NoFile
    sysmodules,    \* the modules that can be imported in this process
    failure_info,  \* Failed.failure_info, the ledger shared by the sentinel classes
    pc,            \* "idle": between calls; "done": a call has just ended
    call,          \* the arguments of the call that has just ended
    result,        \* what that call returned or raised
    log,           \* the steps that call attempted, in order
    lastsave,      \* the arguments of the last save that wrote a file, or NoCall
    ncalls,        \* the number of calls made so far
    sentinel,      \* a type makefailed returned, and the instance made of it
    threads        \* the threads inside makefailed: thread -> its place and locals

vars == <<fs, sysmodules, failure_info, pc, call, result, log, lastsave, ncalls,
          sentinel, threads>>

\* ------------------------------------------------------------------ bounds

\* The number of calls of one behaviour.
MaxCalls == 2

\* The interpreter's recursion limit, in find_class frames.
RecursionLimit == 3

\* ------------------------------------------------------- Python's values

NoneObj == [t |-> "None"]

IntObj(n) == [t |-> "int", v |-> n]

ListObj(items) == [t |-> "list", items |-> items]

Class(module, name) == [module |-> module, name |-> name]

Inst(cls) == [t |-> "inst", cls |-> cls]

\* A class as a value on the unpickler's stack.
ClassObj(cls) == [t |-> "class", cls |-> cls]

Mark == [t |-> "mark"]

\* The classes of the examples of load's docstring, and the class of the
\* first entry of known_fixes with its replacement.
Bar == Class(<<"foo">>, "Bar")

Mat == Class(<<"cat">>, "Mat")

Int64Index == Class(<<"pandas", "core", "indexes", "numeric">>, "Int64Index")

Index == Class(<<"pandas", "core", "indexes", "api">>, "Index")

\* The sentinel classes.
FailedClass == Class(<<"sciris", "sc_fileio">>, "Failed")

UniversalFailedClass == Class(<<"sciris", "sc_fileio">>, "UniversalFailed")

\* isinstance(obj, Failed): an instance of Failed or of its subclass.
IsFailed(obj) == obj.t = "inst" /\ obj.cls \in {FailedClass, UniversalFailedClass}

\* The names each module defines, when it can be imported.
Attrs == {Bar, Mat, Int64Index, Index}

\* The modules that may disappear between two calls (a renamed package, an
\* upgraded library); cat is always there.
Removable == {Bar.module, Index.module}

AllModules == {Bar.module, Mat.module, Index.module}

\* ------------------------------------------------------------ exceptions

\* An exception object: its type, its message and its identity.
Exc(type, msg, id) == [type |-> type, msg |-> msg, id |-> id]

NoError == Exc("None", <<>>, 0)

\* importlib.import_module(module) followed by getattr(module, name).
Import(module, name, mods, id) ==
    IF module \notin mods
    THEN [ok |-> FALSE, cls |-> Class(<<>>, ""),
          exc |-> Exc("ModuleNotFoundError", <<"No module named">> \o module, id)]
    ELSE IF Class(module, name) \notin Attrs
    THEN [ok |-> FALSE, cls |-> Class(<<>>, ""),
          exc |-> Exc("AttributeError", <<"no attribute">> \o module \o <<name>>, id)]
    ELSE [ok |-> TRUE, cls |-> Class(module, name), exc |-> NoError]

\* ------------------------------------------------------------------ bytes

Tok(op, n, module, name) == [op |-> op, n |-> n, module |-> module, name |-> name]

Op(op) == Tok(op, 0, <<>>, "")

\* The magic numbers and the trailer of the containers.
GzipMagic == Op("1f8b")

GzipTrailer == Op("crc32")

ZstdMagic == Op("28b52ffd")

RECURSIVE Emit(_)
RECURSIVE EmitAll(_)
\* The opcodes pickle and dill write for an object.
Emit(obj) ==
    CASE obj.t = "None" -> <<Op("NONE")>>
      [] obj.t = "int"  -> <<Tok("BININT", obj.v, <<>>, "")>>
      [] obj.t = "list" -> <<Op("MARK")>> \o EmitAll(obj.items) \o <<Op("LIST")>>
      [] obj.t = "inst" -> <<Tok("GLOBAL", 0, obj.cls.module, obj.cls.name), Op("NEWOBJ")>>

EmitAll(items) ==
    IF items = <<>> THEN <<>> ELSE Emit(Head(items)) \o EmitAll(Tail(items))

\* The protocols of _savepickle and of _savedill (-1: the highest one).
PickleProtocol == 4

DillProtocol == -1

\* pickle.dumps(obj, protocol) and dill.dumps(obj, protocol); a negative
\* protocol selects the highest protocol, 5.
dumps(obj, protocol) ==
    <<Tok("PROTO", IF protocol < 0 THEN 5 ELSE protocol, <<>>, "")>>
    \o Emit(obj) \o <<Op("STOP")>>

RECURSIVE ClassesOf(_)
\* The classes an object's pickle refers to.
ClassesOf(obj) ==
    CASE obj.t = "inst" -> {obj.cls}
      [] obj.t = "list" -> UNION {ClassesOf(obj.items[i]) : i \in DOMAIN obj.items}
      [] OTHER -> {}

\* What gzip.GzipFile(mode='wb'), zstd's stream_writer and a plain file leave
\* behind once a payload has been written and the stream closed.
GzipCompress(b) == <<GzipMagic>> \o b \o <<GzipTrailer>>

ZstdCompress(b) == <<ZstdMagic>> \o b

\* ------------------------------------------------------------ file names

\* sanitizefilename's default list of disallowed characters, with the space
\* that allowspaces=False adds.
disallowed == {"\\", "/", ":", "*", "?", "!", "\"", "'", "<", ">", "|", " "}

RECURSIVE sanitizefilename(_)
sanitizefilename(filename) ==
    IF filename = <<>> THEN <<>>
    ELSE <<IF Head(filename) \in disallowed THEN "_" ELSE Head(filename)>>
         \o sanitizefilename(Tail(filename))

\* makefilepath(filename, folder=None, sanitize=...): the base name, sanitized
\* on request, in the working directory.
makefilepath(filename, sanitize) ==
    IF sanitize THEN sanitizefilename(filename) ELSE filename

\* The file names callers use, and every name a file can have.
CleanName == <<"a", ".", "g", "z">>

DirtyName == <<"a", " ", "b">>

CallerNames == {CleanName, DirtyName}

FileNames == CallerNames \cup {sanitizefilename(f) : f \in CallerNames}

NoFile == <<Op("ENOENT")>>

\* ------------------------------------------------------- class resolution

\* The values of a remapping dictionary: a string 'module.Name' (its dotted
\* components), a tuple (module, name), or the type itself.
StrVal(parts) == [kind |-> "str", parts |-> parts]

TupleVal(module, name) == [kind |-> "tuple", module |-> module, name |-> name]

TypeVal(cls) == [kind |-> "type", cls |-> cls]

\* The key f'{module_name}.{name}'.
Key(module, name) == module \o <<name>>

EmptyDict == [k \in {} |-> StrVal(<<>>)]

\* dict.update
update(d, e) ==
    [k \in DOMAIN d \cup DOMAIN e |-> IF k \in DOMAIN e THEN e[k] ELSE d[k]]

\* scu.mergedicts(remapping): a new dictionary with the entries of the
\* caller's one (None: no entry).
mergedicts(remapping) == update(EmptyDict, remapping)

\* obj.rsplit('.', 1): the split on the last dot, of a string that has one.
rsplit(parts) == TupleVal(SubSeq(parts, 1, Len(parts) - 1), parts[Len(parts)])

\* A _remap_module that does not look into the remapping.
_remap_moduleUnmapped(remapping, module_name, name, mods, id) ==
    Import(module_name, name, mods, id)

_remap_module(remapping, module_name, name, mods, id) ==
    LET key == Key(module_name, name)
        got == IF key \in DOMAIN remapping THEN remapping[key] ELSE [kind |-> "None"]
        obj == IF got.kind = "str" THEN rsplit(got.parts) ELSE got
    IN  CASE obj.kind = "None"  -> Import(module_name, name, mods, id)
          [] obj.kind = "tuple" -> Import(obj.module, obj.name, mods, id)
          [] obj.kind = "type"  -> [ok |-> TRUE, cls |-> obj.cls, exc |-> NoError]

\* _RenamingUnpickler.known_fixes
known_fixes ==
    (<<Int64Index.module, "Int64Index">> :>
        (Key(Int64Index.module, "Int64Index") :> StrVal(Key(Index.module, "Index"))))
    @@
    (<<Int64Index.module, "Float64Index">> :>
        (Key(Int64Index.module, "Float64Index") :> StrVal(Key(Index.module, "Index"))))

\* last_error == E: exceptions define no equality of their own, so two of
\* them are equal when they are the same object.
ExcEqual(last_error, E) == last_error.id = E.id

\* What a resolver hands back: a class or an exception, with the remapping
\* and the ledger as it leaves them, and the retries it made.
Resolved(r, remapping, fi, retries) ==
    [ok |-> r.ok, cls |-> r.cls, exc |-> r.exc, remapping |-> remapping,
     fi |-> fi, retries |-> retries]

Raised(exc, remapping, fi, retries) ==
    [ok |-> FALSE, cls |-> Class(<<>>, ""), exc |-> exc, remapping |-> remapping,
     fi |-> fi, retries |-> retries]

\* One attempt of _RenamingUnpickler.find_class has ended with r: the class
\* is returned, or the exception handled.
RECURSIVE RenamingFindClass(_, _, _, _, _, _, _)
RECURSIVE RenamingExcept(_, _, _, _, _, _, _, _)
RenamingExcept(r, remapping, fi, module_name, name, last_error, depth, mods) ==
    IF r.ok \/ r.exc.type # "ModuleNotFoundError"
    THEN Resolved(r, remapping, fi, depth - 1)
    ELSE IF ExcEqual(last_error, r.exc)
    THEN Raised(r.exc, remapping, fi, depth - 1)
    ELSE IF <<module_name, name>> \in DOMAIN known_fixes
    THEN RenamingFindClass(update(remapping, known_fixes[<<module_name, name>>]),
                           fi, module_name, name, r.exc, depth + 1, mods)
    ELSE IF module_name \in DOMAIN known_fixes
    THEN RenamingFindClass(update(remapping, known_fixes[module_name]),
                           fi, module_name, name, r.exc, depth + 1, mods)
    ELSE Raised(r.exc, remapping, fi, depth - 1)

\* _RenamingUnpickler.find_class; depth counts its frames, one per attempt,
\* and each attempt raises an exception object of its own.
RenamingFindClass(remapping, fi, module_name, name, last_error, depth, mods) ==
    IF depth > RecursionLimit
    THEN Raised(Exc("RecursionError", <<"maximum recursion depth exceeded">>, depth),
                remapping, fi, depth - 2)
    ELSE RenamingExcept(_remap_module(remapping, module_name, name, mods, depth),
                        remapping, fi, module_name, name, last_error, depth, mods)

\* odict.__setitem__: a new key goes to the end, an existing key keeps its place.
odict_set(od, key, value) ==
    IF \E i \in DOMAIN od : od[i].key = key
    THEN [i \in DOMAIN od |-> IF od[i].key = key THEN value ELSE od[i]]
    ELSE Append(od, value)

\* A makefailed that labels every record 'Failure 1'.
makefailedOneLabel(fi, module_name, name, error, universal) ==
    [cls |-> IF universal THEN UniversalFailedClass ELSE FailedClass,
     fi  |-> odict_set(fi, 1, [key |-> 1, module |-> module_name,
                               class |-> name, error |-> error])]

\* A makefailed that labels a record with the length of the ledger before
\* the record is added.
makefailedLabelBefore(fi, module_name, name, error, universal) ==
    [cls |-> IF universal THEN UniversalFailedClass ELSE FailedClass,
     fi  |-> odict_set(fi, Len(fi), [key |-> Len(fi), module |-> module_name,
                                     class |-> name, error |-> error])]

\* makefailed: the ledger with the record of one more failure; the class it
\* returns is the sentinel class itself.
makefailed(fi, module_name, name, error, universal) ==
    LET key == Len(fi) + 1
    IN  [cls |-> IF universal THEN UniversalFailedClass ELSE FailedClass,
         fi  |-> odict_set(fi, key, [key |-> key, module |-> module_name,
                                     class |-> name, error |-> error])]

\* The except clause of _UltraRobustUnpickler.find_class.
UltraExcept(m, remapping) ==
    [ok |-> TRUE, cls |-> m.cls, exc |-> NoError, remapping |-> remapping,
     fi |-> m.fi, retries |-> 0]

UltraTry(r, remapping, fi, module_name, name) ==
    IF r.ok THEN Resolved(r, remapping, fi, 0)
    ELSE UltraExcept(makefailed(fi, module_name, name, r.exc.msg, TRUE), remapping)

\* An _UltraRobustUnpickler.find_class without its except clause, which is
\* the find_class of _RobustUnpickler.
UltraFindClassRaising(remapping, fi, module_name, name, mods) ==
    Resolved(_remap_module(remapping, module_name, name, mods, 1), remapping, fi, 0)

\* _UltraRobustUnpickler.find_class
UltraFindClass(remapping, fi, module_name, name, mods) ==
    UltraTry(_remap_module(remapping, module_name, name, mods, 1),
             remapping, fi, module_name, name)

\* The find_class of each strategy's unpickler.
find_class(unpickler, remapping, fi, module_name, name, mods) ==
    CASE unpickler = "Robust" ->
            Resolved(_remap_module(remapping, module_name, name, mods, 1), remapping, fi, 0)
      [] unpickler = "Robust (renaming)" ->
            RenamingFindClass(remapping, fi, module_name, name, NoError, 1, mods)
      [] unpickler = "Ultrarobust" ->
            UltraFindClass(remapping, fi, module_name, name, mods)
      [] OTHER ->
            Resolved(Import(module_name, name, mods, 1), remapping, fi, 0)

\* ---------------------------------------------------------- unpickling

RECURSIVE LastMark(_)
\* The place of the topmost mark of the stack, 0 when there is none.
LastMark(stack) ==
    IF stack = <<>> THEN 0
    ELSE IF stack[Len(stack)].t = "mark" THEN Len(stack)
    ELSE LastMark(SubSeq(stack, 1, Len(stack) - 1))

\* The end of a load: an object or an exception, with the ledger as the
\* load leaves it, the retries of its resolver and the unpickler's remapping.
Loaded(obj, st) == [ok |-> TRUE, obj |-> obj, exc |-> NoError, fi |-> st.fi,
                    retries |-> st.retries, remapping |-> st.remapping]

LoadError(exc, st) == [ok |-> FALSE, obj |-> NoneObj, exc |-> exc, fi |-> st.fi,
                       retries |-> st.retries, remapping |-> st.remapping]

RECURSIVE Exec(_, _, _, _, _)
\* The GLOBAL opcode, once find_class has ended with r.
ExecGlobal(unpickler, string, i, st, mods, r) ==
    IF r.ok
    THEN Exec(unpickler, string, i + 1,
              [stack |-> Append(st.stack, ClassObj(r.cls)), remapping |-> r.remapping,
               fi |-> r.fi, retries |-> Append(st.retries, r.retries)], mods)
    ELSE LoadError(r.exc, [stack |-> st.stack, remapping |-> r.remapping, fi |-> r.fi,
                           retries |-> Append(st.retries, r.retries)])

\* The LIST opcode: the items above the topmost mark, at m, become a list.
ExecList(unpickler, string, i, st, mods, m) ==
    IF m = 0
    THEN LoadError(Exc("UnpicklingError", <<"could not find MARK">>, 1), st)
    ELSE Exec(unpickler, string, i + 1,
              [st EXCEPT !.stack = Append(SubSeq(st.stack, 1, m - 1),
                                          ListObj(SubSeq(st.stack, m + 1, Len(st.stack))))],
              mods)

Push(st, x) == [st EXCEPT !.stack = Append(st.stack, x)]

\* One opcode, tk, of the stack machine.
ExecOp(unpickler, string, i, st, mods, tk) ==
    CASE tk.op = "PROTO" ->
            IF tk.n > 5
            THEN LoadError(Exc("ValueError", <<"unsupported pickle protocol">>, 1), st)
            ELSE Exec(unpickler, string, i + 1, st, mods)
      [] tk.op = "NONE" -> Exec(unpickler, string, i + 1, Push(st, NoneObj), mods)
      [] tk.op = "BININT" -> Exec(unpickler, string, i + 1, Push(st, IntObj(tk.n)), mods)
      [] tk.op = "MARK" -> Exec(unpickler, string, i + 1, Push(st, Mark), mods)
      [] tk.op = "LIST" -> ExecList(unpickler, string, i, st, mods, LastMark(st.stack))
      [] tk.op = "GLOBAL" ->
            ExecGlobal(unpickler, string, i, st, mods,
                       find_class(unpickler, st.remapping, st.fi, tk.module, tk.name, mods))
      [] tk.op = "CREATE_TYPE" ->
            Exec(unpickler, string, i + 1,
                 Push(st, ClassObj(Class(tk.module, tk.name))), mods)
      [] tk.op = "NEWOBJ" ->
            IF st.stack = <<>> \/ st.stack[Len(st.stack)].t # "class"
            THEN LoadError(Exc("UnpicklingError", <<"NEWOBJ class argument">>, 1), st)
            ELSE Exec(unpickler, string, i + 1,
                      [st EXCEPT !.stack[Len(st.stack)] = Inst(st.stack[Len(st.stack)].cls)],
                      mods)
      [] tk.op = "STOP" ->
            IF st.stack = <<>>
            THEN LoadError(Exc("UnpicklingError", <<"pickle stack empty">>, 1), st)
            ELSE Loaded(st.stack[Len(st.stack)], st)
      [] OTHER -> LoadError(Exc("UnpicklingError", <<"invalid load key">>, 1), st)

\* Unpickler.load(): the stack machine, from opcode i on.  st holds the
\* stack, the unpickler's remapping, the ledger and the retries so far.
Exec(unpickler, string, i, st, mods) ==
    IF i > Len(string)
    THEN LoadError(Exc("EOFError", <<"Ran out of input">>, 1), st)
    ELSE ExecOp(unpickler, string, i, st, mods, string[i])

\* The keywords _unpickler lets through.
valid_kwargs == {"fix_imports", "encoding", "errors", "buffers", "ignore"}

\* The keywords each entry of methods accepts; any other is a TypeError.
accepted(unpickler) ==
    CASE unpickler = "Pickle" -> {"fix_imports", "encoding", "errors", "buffers"}
      [] unpickler = "Pandas" -> {}
      [] unpickler = "Dill" -> {"fix_imports", "encoding", "errors", "buffers", "ignore"}
      [] unpickler = "Encoded Pickle" -> {"fix_imports", "errors", "buffers"}
      [] OTHER -> {"fix_imports", "encoding", "errors"}

\* methods[unpickler](string, **kwargs): the three robust unpicklers start
\* from a copy of the caller's remapping, the others use none.
methods(unpickler, string, remapping, kwargs, fi, mods) ==
    IF ~(kwargs \subseteq accepted(unpickler))
    THEN LoadError(Exc("TypeError", <<"unexpected keyword argument">>, 1),
                   [fi |-> fi, retries |-> <<>>, remapping |-> mergedicts(remapping)])
    ELSE Exec(unpickler, string, 1,
              [stack |-> <<>>, remapping |-> mergedicts(remapping), fi |-> fi,
               retries |-> <<>>], mods)

\* A list of strategies that ends with the permissive ones whatever die is.
unpicklersPermissive(method, die, auto_remap) ==
    (CASE method = "pickle" -> <<"Pickle", "Pandas", "Encoded Pickle">>
       [] method = "dill" -> <<"Dill">>
       [] OTHER -> <<"Pickle", "Pandas", "Dill", "Encoded Pickle">>)
    \o <<IF auto_remap THEN "Robust (renaming)" ELSE "Robust", "Ultrarobust">>

\* A list of strategies that keeps Dill for after the whole pickle family.
unpicklersFamilyFirst(method, die, auto_remap) ==
    (CASE method = "pickle" -> <<"Pickle", "Pandas", "Encoded Pickle">>
       [] method = "dill" -> <<"Dill">>
       [] OTHER -> <<"Pickle", "Pandas", "Encoded Pickle", "Dill">>)
    \o (IF die \in {"None", "False"}
        THEN <<IF auto_remap THEN "Robust (renaming)" ELSE "Robust", "Ultrarobust">>
        ELSE <<>>)

\* A list of strategies with Ultrarobust ahead of the remapping strategy.
unpicklersUltraFirst(method, die, auto_remap) ==
    (CASE method = "pickle" -> <<"Pickle", "Pandas", "Encoded Pickle">>
       [] method = "dill" -> <<"Dill">>
       [] OTHER -> <<"Pickle", "Pandas", "Dill", "Encoded Pickle">>)
    \o (IF die \in {"None", "False"}
        THEN <<"Ultrarobust", IF auto_remap THEN "Robust (renaming)" ELSE "Robust">>
        ELSE <<>>)

\* The list of strategies of _unpickler.
unpicklers(method, die, auto_remap) ==
    (CASE method = "pickle" -> <<"Pickle", "Pandas", "Encoded Pickle">>
       [] method = "dill" -> <<"Dill">>
       [] OTHER -> <<"Pickle", "Pandas", "Dill", "Encoded Pickle">>)
    \o (IF die \in {"None", "False"}
        THEN <<IF auto_remap THEN "Robust (renaming)" ELSE "Robust", "Ultrarobust">>
        ELSE <<>>)

\* obj is None
IsNone(obj) == obj = NoneObj

\* An unpickler whose self.remapping is the caller's dict itself.
caller_afterShared(remapping, table) == table

\* self.remapping = scu.mergedicts(remapping): the unpickler's table is a
\* dict of its own, so the caller's dict is after a strategy what it was
\* before, whatever the strategy merged into its table.
caller_after(remapping, table) == remapping

RECURSIVE TryUnpicklers(_, _, _, _, _, _, _)
\* A turn of the loop whose except clause records no error.
TryExceptUnrecorded(list, k, string, remapping, kwargs, acc, mods, r) ==
    IF r.ok
    THEN [acc EXCEPT !.obj = r.obj, !.fi = r.fi, !.tried = Append(acc.tried, list[k]),
                     !.remapping = r.remapping,
                     !.caller = caller_after(remapping, r.remapping),
                     !.retries = acc.retries \o r.retries, !.by = list[k]]
    ELSE TryUnpicklers(list, k + 1, string, caller_after(remapping, r.remapping), kwargs,
                       [acc EXCEPT !.fi = r.fi, !.tried = Append(acc.tried, list[k]),
                                   !.remapping = r.remapping,
                                   !.caller = caller_after(remapping, r.remapping),
                                   !.retries = acc.retries \o r.retries],
                       mods)

\* One turn of the loop of _unpickler: strategy list[k] has ended with r.
TryExcept(list, k, string, remapping, kwargs, acc, mods, r) ==
    IF r.ok
    THEN [acc EXCEPT !.obj = r.obj, !.fi = r.fi, !.tried = Append(acc.tried, list[k]),
                     !.remapping = r.remapping,
                     !.caller = caller_after(remapping, r.remapping),
                     !.retries = acc.retries \o r.retries, !.by = list[k]]
    ELSE TryUnpicklers(list, k + 1, string, caller_after(remapping, r.remapping), kwargs,
                       [acc EXCEPT !.fi = r.fi, !.tried = Append(acc.tried, list[k]),
                                   !.remapping = r.remapping,
                                   !.caller = caller_after(remapping, r.remapping),
                                   !.retries = acc.retries \o r.retries,
                                   !.errors = Append(acc.errors,
                                                     [unpickler |-> list[k],
                                                      error |-> r.exc.msg,
                                                      type |-> r.exc.type])],
                       mods)

\* The loop of _unpickler over the strategies from the k-th on; acc holds
\* obj, the errors recorded and the strategies tried so far.
TryUnpicklers(list, k, string, remapping, kwargs, acc, mods) ==
    IF k > Len(list) THEN acc
    ELSE TryExcept(list, k, string, remapping, kwargs, acc, mods,
                   methods(list[k], string, remapping, kwargs, acc.fi, mods))

\* '\n'.join([f'{k}: {v}' for k,v in errors.items()]): a line for each
\* entry of errors, in the order of insertion.
joined(errors) == [i \in DOMAIN errors |-> <<errors[i].unpickler, errors[i].error>>]

\* An end of _unpickler whose message keeps the error of the last strategy
\* only.
UnpickledLastError(acc) ==
    IF IsNone(acc.obj)
    THEN [acc EXCEPT !.raised = "Exception",
                     !.errormsg = IF acc.errors = <<>> THEN <<>>
                                  ELSE joined(<<acc.errors[Len(acc.errors)]>>)]
    ELSE IF IsFailed(acc.obj) THEN [acc EXCEPT !.printed = TRUE]
    ELSE acc

\* The end of _unpickler, after the loop.
Unpickled(acc) ==
    IF IsNone(acc.obj)
    THEN [acc EXCEPT !.raised = "Exception", !.errormsg = joined(acc.errors)]
    ELSE IF IsFailed(acc.obj) THEN [acc EXCEPT !.printed = TRUE]
    ELSE acc

Unpickling(fi) ==
    [obj |-> NoneObj, fi |-> fi, tried |-> <<>>, errors |-> <<>>, retries |-> <<>>,
     by |-> "", raised |-> "", errormsg |-> <<>>, printed |-> FALSE,
     remapping |-> EmptyDict, caller |-> EmptyDict]

\* An _unpickler that hands the keywords to the strategies unchecked.
_unpicklerUnchecked(string, die, remapping, method, auto_remap, kwargs, fi, mods) ==
    Unpickled(TryUnpicklers(unpicklers(method, die, auto_remap), 1, string,
                            remapping, kwargs, Unpickling(fi), mods))

_unpickler(string, die, remapping, method, auto_remap, kwargs, fi, mods) ==
    IF ~(kwargs \subseteq valid_kwargs)
    THEN [Unpickling(fi) EXCEPT !.raised = "ValueError"]
    ELSE Unpickled(TryUnpicklers(unpicklers(method, die, auto_remap), 1, string,
                                 remapping, kwargs, Unpickling(fi), mods))

\* ------------------------------------------------------- the byte source

\* The first argument of load and of save: a file name, an io.BytesIO with
\* its contents, or None.
Filename(name) == [kind |-> "filename", name |-> name, data |-> <<>>]

Fileobj(data) == [kind |-> "fileobj", name |-> <<>>, data |-> data]

NoName == [kind |-> "None", name |-> <<>>, data |-> <<>>]

Read(data) == [ok |-> TRUE, data |-> data, exc |-> ""]

ReadError(type) == [ok |-> FALSE, data |-> <<>>, exc |-> type]

\* open(filename, 'rb').read() and open(filename, 'r').read(): open takes a
\* path, not a stream.
Open(filename, files) ==
    IF filename.kind # "filename" THEN ReadError("TypeError")
    ELSE IF files[filename.name] = NoFile THEN ReadError("FileNotFoundError")
    ELSE Read(files[filename.name])

\* gz.GzipFile(mode='rb', filename=... or fileobj=...).read()
GzipRead(filename, files) ==
    LET src == IF filename.kind = "fileobj" THEN Read(filename.data)
               ELSE Open(filename, files)
        b == src.data
    IN  IF ~src.ok THEN src
        ELSE IF b = <<>> THEN Read(<<>>)
        ELSE IF b[1] # GzipMagic THEN ReadError("BadGzipFile")
        ELSE IF Len(b) < 2 \/ b[Len(b)] # GzipTrailer THEN ReadError("EOFError")
        ELSE Read(SubSeq(b, 2, Len(b) - 1))

\* The zstd step as it would be were the frame handed on undecoded.
ZstdReadUndecoded(filename, files) == Open(filename, files)

\* zstd.ZstdDecompressor().stream_reader(open(filename, 'rb')).read()
ZstdRead(filename, files) ==
    LET src == Open(filename, files)
        b == src.data
    IN  IF ~src.ok THEN src
        ELSE IF b = <<>> THEN Read(<<>>)
        ELSE IF b[1] # ZstdMagic THEN ReadError("ZstdError")
        ELSE Read(Tail(b))

\* What _load_filestr ends with: the string or the exception raised, and
\* the steps it attempted.
Filestr(r, steps) == [ok |-> r.ok, filestr |-> r.data, exc |-> r.exc, steps |-> steps]

\* A _load_filestr that sends every error of the gzip step through the
\* cascade, a missing file too.
_load_filestrCascade(filename, files) ==
    LET name == IF filename.kind = "filename"
                THEN Filename(makefilepath(filename.name, FALSE)) ELSE filename
        E  == GzipRead(name, files)
        E2 == ZstdRead(name, files)
        E3 == Open(name, files)
    IN  IF E.ok THEN Filestr(E, <<"gzip">>)
        ELSE IF E2.ok THEN Filestr(E2, <<"gzip", "zstd">>)
        ELSE IF E3.ok THEN Filestr(E3, <<"gzip", "zstd", "binary">>)
        ELSE Filestr(ReadError("BadGzipFile"), <<"gzip", "zstd", "binary", "text">>)

\* A _load_filestr that, when every step has failed, raises with the type of
\* the last error.
_load_filestrLastError(filename, files) ==
    LET name == IF filename.kind = "filename"
                THEN Filename(makefilepath(filename.name, FALSE)) ELSE filename
        E  == GzipRead(name, files)
        E2 == ZstdRead(name, files)
        E3 == Open(name, files)
        E4 == Open(name, files)
    IN  IF E.ok THEN Filestr(E, <<"gzip">>)
        ELSE IF E.exc = "FileNotFoundError" THEN Filestr(E, <<"gzip">>)
        ELSE IF E.exc = "BadGzipFile"
        THEN IF E2.ok THEN Filestr(E2, <<"gzip", "zstd">>)
             ELSE IF E3.ok THEN Filestr(E3, <<"gzip", "zstd", "binary">>)
             ELSE IF E4.ok THEN Filestr(E4, <<"gzip", "zstd", "binary", "text">>)
             ELSE Filestr(ReadError(E4.exc), <<"gzip", "zstd", "binary", "text">>)
        ELSE Filestr(ReadError(E.exc), <<"gzip">>)

_load_filestr(filename, files) ==
    LET name == IF filename.kind = "filename"
                THEN Filename(makefilepath(filename.name, FALSE)) ELSE filename
        E  == GzipRead(name, files)
        E2 == ZstdRead(name, files)
        E3 == Open(name, files)
        E4 == Open(name, files)
    IN  IF E.ok THEN Filestr(E, <<"gzip">>)
        ELSE IF E.exc = "FileNotFoundError" THEN Filestr(E, <<"gzip">>)
        ELSE IF E.exc = "BadGzipFile"
        THEN IF E2.ok THEN Filestr(E2, <<"gzip", "zstd">>)
             ELSE IF E3.ok THEN Filestr(E3, <<"gzip", "zstd", "binary">>)
             ELSE IF E4.ok THEN Filestr(E4, <<"gzip", "zstd", "binary", "text">>)
             ELSE Filestr(ReadError("BadGzipFile"), <<"gzip", "zstd", "binary", "text">>)
        ELSE Filestr(ReadError(E.exc), <<"gzip">>)

\* ------------------------------------------------------------------- load

\* What a call ends with.  raised: the type of the exception, "" when the
\* call returned; obj: the object load returned; path, stream: what save
\* returned; string: what dumpstr returned; filestr: what _load_filestr
\* returned to load; handles: the files the call opened and has not closed;
\* errormsg: the lines of the message of the exception _unpickler raised,
\* which load chains to its own; remapping: the remapping of the unpickler
\* of the last strategy attempted, as that strategy left it; caller: the
\* caller's remapping as the strategies left it; the rest is
\* what _unpickler did.
NoResult ==
    [raised |-> "", obj |-> NoneObj, path |-> <<>>,
     stream |-> [data |-> <<>>, pos |-> 0, closed |-> FALSE], string |-> <<>>,
     filestr |-> <<>>, handles |-> {}, errormsg |-> <<>>, remapping |-> EmptyDict,
     caller |-> EmptyDict,
     by |-> "", errors |-> <<>>, retries |-> <<>>, printed |-> FALSE,
     fi |-> <<>>, files |-> <<>>, log |-> <<>>]

\* load after _load_filestr has raised, and after _unpickler has ended with u:
\* an exception of _unpickler is raised again with its own type.
LoadRaised(f, fi) == [NoResult EXCEPT !.raised = f.exc, !.fi = fi, !.log = f.steps]

LoadUnpickled(f, u) ==
    [NoResult EXCEPT !.raised = u.raised, !.fi = u.fi, !.filestr = f.filestr,
                     !.obj = IF u.raised = "" THEN u.obj ELSE NoneObj,
                     !.errormsg = u.errormsg, !.remapping = u.remapping,
                     !.caller = u.caller,
                     !.by = u.by, !.errors = u.errors, !.retries = u.retries,
                     !.printed = u.printed, !.log = f.steps \o u.tried]

\* A load that checks the keywords itself, ahead of what _load_filestr did.
LoadFilestrChecked(f, die, remapping, method, auto_remap, kwargs, fi, mods) ==
    IF ~(kwargs \subseteq valid_kwargs)
    THEN [NoResult EXCEPT !.raised = "ValueError", !.fi = fi]
    ELSE IF ~f.ok THEN LoadRaised(f, fi)
    ELSE LoadUnpickled(f, _unpickler(f.filestr, die, remapping, method, auto_remap,
                                     kwargs, fi, mods))

LoadFilestr(f, die, remapping, method, auto_remap, kwargs, fi, mods) ==
    IF ~f.ok THEN LoadRaised(f, fi)
    ELSE LoadUnpickled(f, _unpickler(f.filestr, die, remapping, method, auto_remap,
                                     kwargs, fi, mods))

load(filename, die, remapping, method, auto_remap, kwargs, files, fi, mods) ==
    LoadFilestr(_load_filestr(filename, files), die, remapping, method, auto_remap,
                kwargs, fi, mods)

\* loadstr(string, **kwargs)
loadstr(string, die, remapping, method, auto_remap, kwargs, files, fi, mods) ==
    load(Fileobj(string), die, remapping, method, auto_remap, kwargs, files, fi, mods)

\* ------------------------------------------------------------------- save

\* pickle.dumps saves a class by reference, and raises when it cannot be
\* imported.
picklable(obj, mods) == \A c \in ClassesOf(obj) : Import(c.module, c.name, mods, 1).ok

RECURSIVE DillEmit(_, _)
RECURSIVE DillEmitAll(_, _)
\* The opcodes dill writes for an object: a class that cannot be imported is
\* saved by value, as the call of dill's _create_type that builds it again.
DillEmit(obj, mods) ==
    CASE obj.t = "inst" /\ ~picklable(obj, mods) ->
            <<Tok("CREATE_TYPE", 0, obj.cls.module, obj.cls.name), Op("NEWOBJ")>>
      [] obj.t = "list" -> <<Op("MARK")>> \o DillEmitAll(obj.items, mods) \o <<Op("LIST")>>
      [] OTHER -> Emit(obj)

DillEmitAll(items, mods) ==
    IF items = <<>> THEN <<>>
    ELSE DillEmit(Head(items), mods) \o DillEmitAll(Tail(items), mods)

\* dill.dumps(obj, protocol)
dilldumps(obj, protocol, mods) ==
    <<Tok("PROTO", IF protocol < 0 THEN 5 ELSE protocol, <<>>, "")>>
    \o DillEmit(obj, mods) \o <<Op("STOP")>>

\* save's inner serialize(fileobj, obj, success): what is written to
\* fileobj, the exception raised if any, and the routines attempted.
Written(bytes, routines) == [raised |-> "", written |-> bytes, log |-> routines]

NotWritten(routines) == [raised |-> "PicklingError", written |-> <<>>, log |-> routines]

\* A _savepickle that streams into fileobj as pickle.dump does: what comes
\* before the class that cannot be saved is written when it raises.
_savepickleStreaming(obj, mods, routines) ==
    IF picklable(obj, mods) THEN Written(dumps(obj, PickleProtocol), routines)
    ELSE [NotWritten(routines) EXCEPT !.written = <<Tok("PROTO", PickleProtocol, <<>>, "")>>]

\* _savepickle: fileobj.write(pkl.dumps(obj, protocol=4)); dumps raises
\* before anything is written.
_savepickle(obj, mods, routines) ==
    IF picklable(obj, mods) THEN Written(dumps(obj, PickleProtocol), routines)
    ELSE NotWritten(routines)

\* _savedill: fileobj.write(dill.dumps(obj, protocol=-1)), after what
\* fileobj holds.
_savedill(sink, obj, mods, routines) ==
    Written(sink \o dilldumps(obj, DillProtocol, mods), routines)

\* An except clause of serialize that falls back to dill whatever die is.
SerializeExceptAlways(p, obj, die, mods) ==
    IF p.raised = "" THEN p
    ELSE _savedill(p.written, obj, mods, <<"pickle", "dill">>)

\* serialize once _savepickle has ended with p: the except clause, and the
\* fallback to dill when success is still false.
SerializeExcept(p, obj, die, mods) ==
    IF p.raised = "" THEN p
    ELSE IF die = "True" THEN p
    ELSE _savedill(p.written, obj, mods, <<"pickle", "dill">>)

serialize(obj, method, die, mods) ==
    IF method = "pickle"
    THEN SerializeExcept(_savepickle(obj, mods, <<"pickle">>), obj, die, mods)
    ELSE _savedill(<<>>, obj, mods, <<"dill">>)

\* The bytes that reach the target through each compression's stream, once
\* the stream is closed.
compressed(compression, written) ==
    CASE compression \in {"gz", "gzip"} -> GzipCompress(written)
      [] compression \in {"zst", "zstd", "zstandard"} -> ZstdCompress(written)
      [] OTHER -> written

\* The guard of save against an empty object.
empty_guard(obj, die, allow_empty) == IsNone(obj) /\ ~allow_empty /\ die # "never"

\* The compressions of save; gzip's stream leaves open a byte stream it was
\* given, closing(bytestream) closes it.
valid_compression(compression) ==
    compression \in {"gz", "gzip", "zst", "zstd", "zstandard", "none"}

keeps_open(compression) == compression \in {"gz", "gzip"}

\* save to a file: the target is opened for writing, which empties it, and
\* holds what went through the stream once the with blocks are left.  The
\* with blocks close the file; no with block is entered for a compression
\* that is not valid.
SaveFile(path, compression, s, files) ==
    IF ~valid_compression(compression)
    THEN [NoResult EXCEPT !.raised = "ValueError", !.log = <<"open">>,
                          !.handles = {path},
                          !.files = [files EXCEPT ![path] = <<>>]]
    ELSE [NoResult EXCEPT !.raised = s.raised,
                          !.path = IF s.raised = "" THEN path ELSE <<>>,
                          !.log = <<"open">> \o s.log \o <<"close">>,
                          !.files = [files EXCEPT
                                        ![path] = compressed(compression, s.written)]]

\* save to a byte stream, with the bytestream.seek(0) that ends it.
SaveBytes(compression, s, files) ==
    IF ~valid_compression(compression)
    THEN [NoResult EXCEPT !.raised = "ValueError", !.files = files]
    ELSE IF s.raised # ""
    THEN [NoResult EXCEPT !.raised = s.raised, !.files = files, !.log = s.log]
    ELSE [NoResult EXCEPT !.raised = IF keeps_open(compression) THEN "" ELSE "ValueError",
                          !.files = files, !.log = s.log,
                          !.stream = [data |-> compressed(compression, s.written),
                                      pos |-> 0, closed |-> ~keeps_open(compression)]]

\* A save that looks at the object only once the target is written.
saveGuardLast(filename, obj, method, compression, sanitizepath, die, allow_empty, files, mods) ==
    LET r == IF filename.kind = "None"
             THEN SaveBytes(compression, serialize(obj, method, die, mods), files)
             ELSE SaveFile(makefilepath(filename.name, sanitizepath), compression,
                           serialize(obj, method, die, mods), files)
    IN  IF empty_guard(obj, die, allow_empty)
        THEN [r EXCEPT !.raised = "ValueError", !.path = <<>>]
        ELSE r

save(filename, obj, method, compression, sanitizepath, die, allow_empty, files, mods) ==
    IF empty_guard(obj, die, allow_empty)
    THEN [NoResult EXCEPT !.raised = "ValueError", !.files = files]
    ELSE IF filename.kind = "None"
    THEN SaveBytes(compression, serialize(obj, method, die, mods), files)
    ELSE SaveFile(makefilepath(filename.name, sanitizepath), compression,
                  serialize(obj, method, die, mods), files)

\* The read() of dumpstr on the stream save returned.
StreamRead(r) ==
    IF r.raised # "" THEN r
    ELSE [r EXCEPT !.string = SubSeq(r.stream.data, r.stream.pos + 1, Len(r.stream.data))]

\* dumpstr(obj, **kwargs)
dumpstr(obj, method, compression, die, allow_empty, files, mods) ==
    StreamRead(save(NoName, obj, method, compression, TRUE, die, allow_empty, files, mods))

\* ------------------------------------------------------------- the calls

\* The objects callers save: None, plain data (a number that is false),
\* and an instance of a class of the caller's own.
PlainObjects == {IntObj(0)}

SaveObjects == {NoneObj} \cup PlainObjects \cup {Inst(Bar)}

\* The containers of save, and a compression it does not know.
Containers == {"gzip", "zstd", "none"}

Compressions == Containers \cup {"lzma"}

\* save's die and allow_empty, as far as they decide the guard against an
\* empty object.
SaveSettings == {<<"False", FALSE>>, <<"False", TRUE>>, <<"never", FALSE>>}

\* The byte strings callers hold in memory: what each container makes of
\* the pickle of a number, and what gzip, the container dumpstr takes when
\* none is given, makes of the pickle of an instance, of an instance of a
\* class pandas has dropped and of a list that holds an instance.
StringObjects == {IntObj(7)}

GzipObjects == {Inst(Bar), Inst(Int64Index), ListObj(<<Inst(Bar)>>)}

Strings ==
    {compressed(c, dumps(o, PickleProtocol)) : c \in Containers, o \in StringObjects}
        \cup {compressed("gzip", dumps(o, PickleProtocol)) : o \in GzipObjects}

\* load's settings: die, remapping, method, auto_remap and kwargs.
LoadDie == {"None", "False", "True"}

FileRemappings ==
    {EmptyDict, Key(Bar.module, Bar.name) :> StrVal(Key(Mat.module, Mat.name))}

Remappings ==
    FileRemappings \cup
    {Key(Bar.module, Bar.name) :> TupleVal(Mat.module, Mat.name),
     Key(Bar.module, Bar.name) :> TypeVal(Mat),
     Key(Int64Index.module, Int64Index.name) :> StrVal(Key(Bar.module, Bar.name))}

\* loadstr's die and auto_remap.
LoadStrSettings ==
    {<<"None", TRUE>>, <<"False", TRUE>>, <<"False", FALSE>>, <<"True", TRUE>>}

Methods == {"pickle", "auto"}

KwargSets == {{}, {"bogus"}}

NoCall == [op |-> "none"]

NoSave == [op |-> "none"]

\* No type has been asked of makefailed, and no thread is inside it.
NoSentinel == [step |-> "none"]

NoThreads == <<>>

Init ==
    /\ fs = [f \in FileNames |-> NoFile]
    /\ sysmodules = AllModules
    /\ failure_info = <<>>
    /\ pc = "idle"
    /\ call = NoCall
    /\ result = NoResult
    /\ log = <<>>
    /\ lastsave = NoSave
    /\ ncalls = 0
    /\ sentinel = NoSentinel
    /\ threads = NoThreads

\* What the caller sees of a call's end.
Outcome(r) == [r EXCEPT !.fi = <<>>, !.files = <<>>, !.log = <<>>]

Begin ==
    /\ pc = "idle"
    /\ ncalls < MaxCalls
    /\ ncalls' = ncalls + 1
    /\ pc' = "done"
    /\ UNCHANGED <<sentinel, threads>>

SaveEnd(r, name, obj, compression) ==
    /\ fs' = r.files
    /\ result' = Outcome(r)
    /\ log' = r.log
    /\ lastsave' = IF r.raised = ""
                   THEN [op |-> "save", filename |-> Filename(name), path |-> r.path,
                         obj |-> obj, compression |-> compression]
                   ELSE NoSave

\* save(filename, obj, method=..., compression=..., die=..., allow_empty=...)
Save(name, obj, method, compression, die, allow_empty) ==
    /\ Begin
    /\ call' = [op |-> "save", filename |-> Filename(name), obj |-> obj,
                method |-> method, compression |-> compression, die |-> die,
                allow_empty |-> allow_empty, files |-> fs]
    /\ SaveEnd(save(Filename(name), obj, method, compression, TRUE, die, allow_empty,
                    fs, sysmodules), name, obj, compression)
    /\ UNCHANGED <<sysmodules, failure_info>>

DumpStrEnd(r) ==
    /\ result' = Outcome(r)
    /\ log' = r.log

\* dumpstr(obj, compression=..., allow_empty=True)
DumpStr(obj, compression) ==
    /\ Begin
    /\ call' = [op |-> "dumpstr", obj |-> obj, compression |-> compression]
    /\ DumpStrEnd(dumpstr(obj, "pickle", compression, "False", TRUE, fs, sysmodules))
    /\ UNCHANGED <<fs, sysmodules, failure_info, lastsave>>

LoadEnd(r) ==
    /\ failure_info' = r.fi
    /\ result' = Outcome(r)
    /\ log' = r.log

\* load(filename, die=..., remapping=..., method=..., auto_remap=..., **kwargs)
Load(name, die, remapping, method, auto_remap, kwargs) ==
    /\ Begin
    /\ call' = [op |-> "load", filename |-> Filename(name), die |-> die,
                remapping |-> remapping, method |-> method,
                auto_remap |-> auto_remap, kwargs |-> kwargs, fi |-> failure_info]
    /\ LoadEnd(load(Filename(name), die, remapping, method, auto_remap, kwargs,
                    fs, failure_info, sysmodules))
    /\ UNCHANGED <<fs, sysmodules, lastsave>>

\* loadstr(string, die=..., remapping=..., method=..., auto_remap=...)
LoadStr(string, die, remapping, method, auto_remap) ==
    /\ Begin
    /\ call' = [op |-> "loadstr", filename |-> Fileobj(string), die |-> die,
                remapping |-> remapping, method |-> method,
                auto_remap |-> auto_remap, kwargs |-> {}, fi |-> failure_info]
    /\ LoadEnd(loadstr(string, die, remapping, method, auto_remap, {},
                       fs, failure_info, sysmodules))
    /\ UNCHANGED <<fs, sysmodules, lastsave>>

\* The caller takes the result; a save that returned is remembered until
\* the end of the call that follows it.
Return ==
    /\ pc = "done"
    /\ pc' = "idle"
    /\ call' = NoCall
    /\ result' = NoResult
    /\ log' = <<>>
    /\ lastsave' = IF call.op = "save" THEN lastsave ELSE NoSave
    /\ UNCHANGED <<fs, sysmodules, failure_info, ncalls, sentinel, threads>>

\* Between two calls a module stops being importable.
RemoveModule(m) ==
    /\ pc = "idle"
    /\ m \in sysmodules
    /\ sysmodules' = sysmodules \ {m}
    /\ UNCHANGED <<fs, failure_info, pc, call, result, log, lastsave, ncalls,
                   sentinel, threads>>

Next ==
    \/ \E f \in CallerNames, o \in SaveObjects, c \in Compressions, d \in SaveSettings :
          picklable(o, sysmodules) /\ Save(f, o, "pickle", c, d[1], d[2])
    \/ \E o \in SaveObjects, c \in Compressions :
          picklable(o, sysmodules) /\ DumpStr(o, c)
    \/ \E f \in FileNames, d \in LoadDie, r \in FileRemappings, m \in Methods,
          k \in KwargSets : Load(f, d, r, m, TRUE, k)
    \/ \E s \in Strings, d \in LoadStrSettings, r \in Remappings :
          LoadStr(s, d[1], r, "pickle", d[2])
    \/ Return
    \/ \E m \in Removable : RemoveModule(m)

Spec == Init /\ [][Next]_vars

\* ------------------------------------------------------------ properties

\* A load has ended, and a load or loadstr has ended.
LoadDone == pc = "done" /\ call.op = "load"

LoadsDone == pc = "done" /\ call.op \in {"load", "loadstr"}

\* The settings of load when the caller gives none.
DefaultSettings ==
    /\ call.die = "None"
    /\ call.remapping = EmptyDict
    /\ call.method = "pickle"
    /\ call.auto_remap
    /\ call.kwargs = {}

\* The call before this one was a save of plain data, in one of the three
\* containers, that returned.
PlainSaved ==
    /\ lastsave.op = "save"
    /\ lastsave.obj \in PlainObjects
    /\ lastsave.compression \in Containers

Returned(obj) == result.raised = "" /\ result.obj = obj

\* C1, as stated: after save(path, O, compression=c) of plain data O, load(path)
\* with default settings returns O, whatever the name path.
C1_RoundTripOfName ==
    (LoadDone /\ DefaultSettings /\ PlainSaved /\ call.filename = lastsave.filename)
        => Returned(lastsave.obj)

\* C1, amended: after save(path, O, compression=c) of plain data O, load of the
\* path that save returned (path with its base name sanitized) returns O with
\* default settings, for each container and whatever the extension.
C1_RoundTripOfReturnedPath ==
    (LoadDone /\ DefaultSettings /\ PlainSaved /\ call.filename.name = lastsave.path)
        => Returned(lastsave.obj)

\* A zstd container under a name that ends in .gz has been loaded back, and
\* so has a file whose name save changed.
C1_Witness ==
    /\ LoadDone /\ DefaultSettings /\ PlainSaved
    /\ call.filename.name = lastsave.path
    /\ lastsave.compression = "zstd"
    /\ lastsave.filename.name = CleanName
    /\ Returned(IntObj(0))

\* An object alone, or held in a list.
Holders == {"alone", "list"}

Hold(h, x) == IF h = "list" THEN ListObj(<<x>>) ELSE x

\* The strict strategies cannot resolve cls: it cannot be imported.
Unimportable(cls) == ~Import(cls.module, cls.name, sysmodules, 1).ok

\* No strategy before the last resolves cls: it cannot be imported, and the
\* resolver with the caller's remapping (and the known fixes, with auto_remap)
\* fails for it too.
Unresolvable(cls) ==
    /\ Unimportable(cls)
    /\ ~find_class(IF call.auto_remap THEN "Robust (renaming)" ELSE "Robust",
                   mergedicts(call.remapping), <<>>, cls.module, cls.name, sysmodules).ok

\* The ledger is what it was before the call, with one more record, for cls.
OneMoreRecord(cls) ==
    /\ Len(failure_info) = Len(call.fi) + 1
    /\ SubSeq(failure_info, 1, Len(call.fi)) = call.fi
    /\ failure_info[Len(failure_info)].module = cls.module
    /\ failure_info[Len(failure_info)].class = cls.name

\* C2: a load with die false (or None) of a stream that holds one instance of
\* a class that cannot be resolved returns the object with a sentinel in the
\* place of the instance, and leaves the ledger with exactly one more record,
\* which names the module and the class.
C2_DegradedLoad ==
    \A cls \in Attrs, h \in Holders :
        (/\ LoadsDone /\ call.die \in {"None", "False"} /\ call.kwargs = {}
         /\ result.filestr = dumps(Hold(h, Inst(cls)), PickleProtocol)
         /\ Unresolvable(cls))
            => /\ Returned(Hold(h, Inst(UniversalFailedClass)))
               /\ OneMoreRecord(cls)

\* A degraded load has added a record to a ledger that held one, after four
\* strategies failed, for an instance held in a list.
C2_Witness ==
    /\ LoadsDone /\ call.die = "False" /\ call.kwargs = {}
    /\ result.filestr = dumps(ListObj(<<Inst(Bar)>>), PickleProtocol)
    /\ Unresolvable(Bar)
    /\ Len(result.errors) = 4
    /\ result.by = "Ultrarobust"
    /\ Len(failure_info) = 2

\* The strategies that find classes through a resolver of this module.
Permissive == {"Robust", "Robust (renaming)", "Ultrarobust"}

\* C3: a load with die true of a stream that refers to a class that cannot be
\* imported raises; no permissive strategy is attempted, no object (so no
\* sentinel) is returned, and the ledger is what it was before the call.
C3_StrictLoad ==
    \A cls \in Attrs, h \in Holders :
        (/\ LoadsDone /\ call.die = "True" /\ call.kwargs = {}
         /\ result.filestr = dumps(Hold(h, Inst(cls)), PickleProtocol)
         /\ Unimportable(cls))
            => /\ result.raised = "Exception"
               /\ result.obj = NoneObj
               /\ \A i \in DOMAIN log : log[i] \notin Permissive
               /\ failure_info = call.fi

\* A strict load has raised, after its three strategies failed, with a
\* ledger that held a record before it.
C3_Witness ==
    /\ LoadsDone /\ call.die = "True" /\ call.kwargs = {}
    /\ result.filestr = dumps(Inst(Bar), PickleProtocol)
    /\ Unimportable(Bar)
    /\ result.raised = "Exception"
    /\ Len(result.errors) = 3
    /\ call.fi # <<>>
    /\ failure_info = call.fi

\* C4: each find_class of a load retries at most once; when the replacement
\* of a known fix cannot be imported either, the error of the retry is raised
\* and find_class returns after that one retry.
C4_RetriesOnce ==
    LoadsDone => \A i \in DOMAIN result.retries : result.retries[i] <= 1

\* The file a load reads: load does not sanitize the name.
LoadPath == makefilepath(call.filename.name, FALSE)

\* The steps of _load_filestr.
ByteSteps == {"gzip", "zstd", "binary", "text"}

\* C5: load of a path where there is no file raises FileNotFoundError out of
\* the gzip step: no other step of _load_filestr and no unpickling strategy
\* is attempted, and the error is not the bad-gzip error of the cascade.
C5_NotFoundImmediate ==
    (LoadDone /\ fs[LoadPath] = NoFile)
        => /\ result.raised = "FileNotFoundError"
           /\ log = <<"gzip">>

\* A load of the name a save was given, where save wrote under another name,
\* has raised FileNotFoundError.
C5_Witness ==
    /\ LoadDone /\ fs[LoadPath] = NoFile
    /\ lastsave.op = "save" /\ call.filename = lastsave.filename
    /\ result.raised = "FileNotFoundError"
    /\ log = <<"gzip">>

\* C6: a file that save wrote for None (allow_empty true, or die 'never')
\* loads back as None with default settings.
C6_NoneRoundTrip ==
    (/\ LoadDone /\ DefaultSettings
     /\ lastsave.op = "save" /\ lastsave.obj = NoneObj
     /\ lastsave.compression \in Containers
     /\ call.filename.name = lastsave.path)
        => Returned(NoneObj)

\* The guard of save applies to the call that has ended.
Guarded == call.obj = NoneObj /\ ~call.allow_empty /\ call.die # "never"

\* C7: save of None with allow_empty false and die other than 'never' raises
\* ValueError before the target is opened: nothing is serialized, and every
\* file is what it was before the call, a file at the target too.
C7_EmptyGuard ==
    (pc = "done" /\ call.op = "save" /\ Guarded)
        => /\ result.raised = "ValueError"
           /\ log = <<>>
           /\ fs = call.files

\* The guard has stopped a save whose target held a file.
C7_Witness ==
    /\ pc = "done" /\ call.op = "save" /\ Guarded
    /\ result.raised = "ValueError"
    /\ fs[makefilepath(call.filename.name, TRUE)] \notin {NoFile, <<>>}
    /\ fs = call.files

\* The call that has ended is a load with a keyword _unpickler does not know.
BadKeyword == LoadDone /\ ~(call.kwargs \subseteq valid_kwargs)

\* C8, as stated: load with a keyword outside the allow-list raises ValueError
\* before any byte of the source is read, that is before any step of
\* _load_filestr.
C8_KeywordBeforeRead ==
    BadKeyword => (result.raised = "ValueError" /\ log = <<>>)

\* C8, amended: load with a keyword outside the allow-list raises, after
\* _load_filestr has run and before any strategy: ValueError once the bytes
\* are read, the error of _load_filestr when the source cannot be read.
C8_KeywordAfterRead ==
    BadKeyword
        => /\ log # <<>> /\ log[1] = "gzip"
           /\ \A i \in DOMAIN log : log[i] \in ByteSteps
           /\ result.raised = IF fs[LoadPath] = NoFile THEN "FileNotFoundError"
                              ELSE "ValueError"

\* A zstd file has been read through before the keyword was refused.
C8_Witness ==
    /\ BadKeyword
    /\ result.raised = "ValueError"
    /\ log = <<"gzip", "zstd">>
    /\ fs[LoadPath] # <<>>

\* C9: when _unpickler is given a keyword it does not know, no strategy is
\* attempted, no error of a strategy is recorded, and the ledger is what it
\* was; the ValueError is raised whenever _load_filestr returned.
C9_KeywordBeforeStrategies ==
    BadKeyword
        => /\ result.errors = <<>> /\ result.by = "" /\ result.retries = <<>>
           /\ \A i \in DOMAIN log : log[i] \in ByteSteps
           /\ failure_info = call.fi
           /\ (fs[LoadPath] # NoFile => result.raised = "ValueError")

\* The keyword was refused for a permissive load of a file holding an
\* instance of a class that can no longer be imported.
C9_Witness ==
    /\ BadKeyword /\ call.die = "False"
    /\ fs[LoadPath] = GzipCompress(dumps(Inst(Bar), PickleProtocol))
    /\ Unimportable(Bar)
    /\ result.raised = "ValueError"
    /\ failure_info = call.fi

\* The plain data among the strings callers hold.
PlainStrings == {IntObj(7)}

\* C10: loadstr, with default settings, of what a container makes of the
\* pickle of plain data returns the data, for each of the three containers.
C10_LoadStrContainers ==
    \A c \in Containers, o \in PlainStrings :
        (/\ pc = "done" /\ call.op = "loadstr" /\ DefaultSettings
         /\ call.filename.data = compressed(c, dumps(o, PickleProtocol)))
            => Returned(o)

\* C11: save returns the path it wrote when it is given a file name; given
\* None (as dumpstr calls it) it returns, for each of the three containers,
\* the byte stream, open and at offset 0.
C11_SaveOutput ==
    /\ (pc = "done" /\ call.op = "save" /\ result.raised = "")
          => result.path = makefilepath(call.filename.name, TRUE)
    /\ (pc = "done" /\ call.op = "dumpstr" /\ call.compression \in Containers)
          => /\ result.raised = ""
             /\ result.stream.pos = 0
             /\ ~result.stream.closed

\* C12: when a load or a save has ended, by a return or by an exception,
\* every file it opened is closed.
C12_HandlesClosed ==
    (pc = "done" /\ call.op \in {"save", "dumpstr", "load", "loadstr"})
        => result.handles = {}

\* The strategies of the call that has ended, in the order of _unpickler.
Chain == unpicklers(call.method, call.die, call.auto_remap)

\* C13: when every strategy of the chain has raised, _unpickler raises one
\* Exception whose message has a line for each strategy, with its name and
\* the message of its error, in the order the strategies were attempted.
C13_StrategyExhausted ==
    (LoadsDone /\ call.kwargs \subseteq valid_kwargs /\ Len(result.errors) = Len(Chain))
        => /\ result.raised = "Exception"
           /\ Len(result.errormsg) = Len(Chain)
           /\ \A i \in DOMAIN result.errormsg :
                 result.errormsg[i] = <<Chain[i], result.errors[i].error>>

\* A strict load of an instance of foo.Bar, when foo cannot be imported, has
\* raised with the three lines of its three strategies.
C13_Witness ==
    /\ LoadsDone /\ call.die = "True" /\ call.method = "pickle" /\ call.kwargs = {}
    /\ result.filestr = dumps(Inst(Bar), PickleProtocol)
    /\ result.raised = "Exception"
    /\ result.errormsg = << <<"Pickle", <<"No module named", "foo">> >>,
                            <<"Pandas", <<"No module named", "foo">> >>,
                            <<"Encoded Pickle", <<"No module named", "foo">> >> >>

\* C14: _unpickler raises its Exception only when every strategy of the chain
\* has raised; once a strategy has returned, the load returns what that
\* strategy returned, whatever its value.
C14_RaisesOnlyWhenExhausted ==
    /\ (LoadsDone /\ result.raised = "Exception")
          => (result.by = "" /\ Len(result.errors) = Len(Chain))
    /\ (LoadsDone /\ result.by # "") => result.raised = ""

\* The classes of the sentinels.
Sentinels == {FailedClass, UniversalFailedClass}

\* C15: a load with die false (or None) that put a sentinel anywhere in the
\* object it returns prints the report of the failures, and returns.
C15_FailureReport ==
    /\ (LoadsDone /\ call.die \in {"None", "False"} /\ result.raised = ""
        /\ ClassesOf(result.obj) \cap Sentinels # {})
          => result.printed
    /\ (LoadsDone /\ result.printed) => result.raised = ""

\* ------------------------------------------------- the sentinel classes

\* The values handed to a sentinel: a tuple of positional arguments, a dict
\* (by its keys), a number, a list, None; the value under a key of a dict.
PyVal(kind, v) == [kind |-> kind, v |-> v]

PyNone == PyVal("None", <<>>)

EmptyPyDict == PyVal("dict", <<>>)

ArgTuples == {PyVal("tuple", <<>>), PyVal("tuple", <<"1">>)}

KwargDicts == {EmptyPyDict, PyVal("dict", <<"k">>)}

PickledStates ==
    {PyNone, PyVal("dict", <<"x">>), PyVal("int", <<"5">>), PyVal("list", <<"a">>)}

\* An instance's __dict__, and the assignment of an attribute.
NoAttrs == [k \in {} |-> PyNone]

setattr(attrs, k, v) ==
    [a \in DOMAIN attrs \cup {k} |-> IF a = k THEN v ELSE attrs[a]]

\* self.__dict__.update(state): the keys of a dict become attributes,
\* anything else is a TypeError.
dict_update(attrs, state) ==
    IF state.kind # "dict" THEN [ok |-> FALSE, attrs |-> attrs]
    ELSE [ok |-> TRUE,
          attrs |-> [a \in DOMAIN attrs \cup {state.v[i] : i \in DOMAIN state.v} |->
                        IF \E i \in DOMAIN state.v : state.v[i] = a
                        THEN PyVal("item", <<a>>) ELSE attrs[a]]]

\* UniversalFailed.__set_empty, applied to attrs and then to its result.
set_empty_dict(attrs) ==
    IF "dict" \in DOMAIN attrs THEN attrs ELSE setattr(attrs, "dict", EmptyPyDict)

set_empty(attrs) ==
    set_empty_dict(IF "state" \in DOMAIN attrs THEN attrs
                   ELSE setattr(attrs, "state", EmptyPyDict))

\* Failed.__init__ and UniversalFailed.__init__
init_kwargs(attrs, kwargs) ==
    set_empty(IF kwargs.v # <<>> THEN setattr(attrs, "kwargs", kwargs) ELSE attrs)

init(cls, args, kwargs) ==
    IF cls = UniversalFailedClass
    THEN init_kwargs(IF args.v # <<>> THEN setattr(NoAttrs, "args", args) ELSE NoAttrs,
                     kwargs)
    ELSE NoAttrs

\* UniversalFailed.__setstate__, once the update has ended with u.
setstate(attrs, state, u) ==
    IF u.ok THEN u.attrs ELSE setattr(set_empty(attrs), "state", state)

Restored(attrs) == [exc |-> "", attrs |-> attrs]

\* The restoration of an instance's state by the unpickler: the class's
\* __setstate__ where it has one; else None is skipped, the items of a dict
\* become attributes, and any other state is refused.
build(cls, attrs, state) ==
    IF cls = UniversalFailedClass
    THEN Restored(setstate(attrs, state, dict_update(attrs, state)))
    ELSE IF state.kind = "None" THEN Restored(attrs)
    ELSE IF state.kind = "dict" THEN Restored(dict_update(attrs, state).attrs)
    ELSE [exc |-> "UnpicklingError", attrs |-> attrs]

\* makefailed has ended with m: its type is the caller's.
MakeFailedEnd(m) ==
    /\ failure_info' = m.fi
    /\ sentinel' = [step |-> "type", cls |-> m.cls, attrs |-> NoAttrs, exc |-> "",
                    state |-> PyNone]

\* makefailed(module_name, name, error, universal=...)
MakeFailed(cls, universal) ==
    /\ sentinel.step = "none"
    /\ MakeFailedEnd(makefailed(failure_info, cls.module, cls.name,
                                <<"No module named">> \o cls.module, universal))
    /\ UNCHANGED <<fs, sysmodules, pc, call, result, log, lastsave, ncalls, threads>>

\* cls.__new__(cls), as the unpickler makes an instance.
New ==
    /\ sentinel.step = "type"
    /\ sentinel' = [sentinel EXCEPT !.step = "inst"]
    /\ UNCHANGED <<fs, sysmodules, failure_info, pc, call, result, log, lastsave,
                   ncalls, threads>>

\* cls(*args, **kwargs)
Instantiate(args, kwargs) ==
    /\ sentinel.step = "type"
    /\ sentinel' = [sentinel EXCEPT !.step = "inst",
                                    !.attrs = init(sentinel.cls, args, kwargs)]
    /\ UNCHANGED <<fs, sysmodules, failure_info, pc, call, result, log, lastsave,
                   ncalls, threads>>

SetStateEnd(b, state) ==
    sentinel' = [sentinel EXCEPT !.step = "built", !.attrs = b.attrs, !.exc = b.exc,
                                 !.state = state]

\* The unpickler restores state on the instance.
SetState(state) ==
    /\ sentinel.step = "inst"
    /\ SetStateEnd(build(sentinel.cls, sentinel.attrs, state), state)
    /\ UNCHANGED <<fs, sysmodules, failure_info, pc, call, result, log, lastsave,
                   ncalls, threads>>

SentinelNext ==
    \/ \E cls \in Attrs, universal \in BOOLEAN : MakeFailed(cls, universal)
    \/ New
    \/ \E args \in ArgTuples, kwargs \in KwargDicts : Instantiate(args, kwargs)
    \/ \E state \in PickledStates : SetState(state)

\* A type is asked of makefailed, an instance made of it and its state
\* restored.
SentinelSpec == Init /\ [][SentinelNext]_vars

\* C16: making an instance of a type makefailed returned, with any
\* arguments, and restoring any state on it never raise; a UniversalFailed
\* keeps a state that is no dict under its attribute 'state'.
C16_SentinelNeverRaises ==
    sentinel.step # "none"
        => /\ sentinel.exc = ""
           /\ (/\ sentinel.step = "built"
               /\ sentinel.cls = UniversalFailedClass
               /\ sentinel.state.kind # "dict")
                 => sentinel.attrs["state"] = sentinel.state

\* ------------------------------------------------------------ properties

\* a is the beginning of b.
IsPrefix(a, b) == Len(a) <= Len(b) /\ SubSeq(b, 1, Len(a)) = a

\* C17: no step of a sequence of calls removes or changes a record of the
\* ledger, or resets it: the ledger before a step is the beginning of the
\* ledger after it.
C17_LedgerAppendOnly == [][IsPrefix(failure_info, failure_info')]_vars

\* A second degraded load has added its record after the record of the
\* first, which names another class.
C17_Witness ==
    /\ LoadsDone
    /\ Len(call.fi) = 1 /\ Len(failure_info) = 2
    /\ failure_info[1] = call.fi[1]
    /\ failure_info[1].class # failure_info[2].class

\* ------------------------------------------- makefailed, statement by statement

\* The number of threads that are inside makefailed together.
NumThreads == 2

\* base.failure_info[key][field] = value, on the record under key.
setitem(fi, key, field, value) ==
    [i \in DOMAIN fi |->
        IF fi[i].key # key THEN fi[i]
        ELSE CASE field = "module" -> [fi[i] EXCEPT !.module = value]
               [] field = "class"  -> [fi[i] EXCEPT !.class = value]
               [] OTHER            -> [fi[i] EXCEPT !.error = value]]

\* sco.odict(): a record with no field set yet.
EmptyRecord(key) == [key |-> key, module |-> <<>>, class |-> "", error |-> <<>>]

\* A load in a thread of its own meets a reference to cls that it cannot
\* resolve, and calls makefailed.
Enter(cls) ==
    /\ Len(threads) < NumThreads
    /\ threads' = Append(threads, [pc |-> "key", cls |-> cls, key |-> 0])
    /\ UNCHANGED <<fs, sysmodules, failure_info, pc, call, result, log, lastsave,
                   ncalls, sentinel>>

\* key = f'Failure {len(base.failure_info)+1}'
ReadKey(t) ==
    /\ threads[t].pc = "key"
    /\ threads' = [threads EXCEPT ![t].pc = "insert", ![t].key = Len(failure_info) + 1]
    /\ UNCHANGED <<fs, sysmodules, failure_info, pc, call, result, log, lastsave,
                   ncalls, sentinel>>

\* base.failure_info[key] = sco.odict()
Insert(t) ==
    /\ threads[t].pc = "insert"
    /\ failure_info' = odict_set(failure_info, threads[t].key, EmptyRecord(threads[t].key))
    /\ threads' = [threads EXCEPT ![t].pc = "module"]
    /\ UNCHANGED <<fs, sysmodules, pc, call, result, log, lastsave, ncalls, sentinel>>

\* base.failure_info[key]['module'] = module_name, then 'class', then 'error'
SetItem(t, field, value, next) ==
    /\ threads[t].pc = field
    /\ failure_info' = setitem(failure_info, threads[t].key, field, value)
    /\ threads' = [threads EXCEPT ![t].pc = next]
    /\ UNCHANGED <<fs, sysmodules, pc, call, result, log, lastsave, ncalls, sentinel>>

ConcurrentNext ==
    \/ \E cls \in {Bar, Int64Index} : Enter(cls)
    \/ \E t \in DOMAIN threads : ReadKey(t)
    \/ \E t \in DOMAIN threads : Insert(t)
    \/ \E t \in DOMAIN threads : SetItem(t, "module", threads[t].cls.module, "class")
    \/ \E t \in DOMAIN threads : SetItem(t, "class", threads[t].cls.name, "error")
    \/ \E t \in DOMAIN threads :
          SetItem(t, "error", <<"No module named">> \o threads[t].cls.module, "done")

\* Loads in threads of their own, each inside makefailed, with the
\* interpreter switching between them after any statement.
ConcurrentSpec == Init /\ [][ConcurrentNext]_vars

\* C18: the appends of concurrent loads are serialized: the threads take
\* distinct labels, and when a thread has left makefailed the ledger holds
\* its record, under its label, with its module and class.
C18_SerializedAppends ==
    /\ \A t, u \in DOMAIN threads :
          (t # u /\ threads[t].pc # "key" /\ threads[u].pc # "key")
              => threads[t].key # threads[u].key
    /\ \A t \in DOMAIN threads :
          threads[t].pc = "done"
              => \E i \in DOMAIN failure_info :
                    /\ failure_info[i].key = threads[t].key
                    /\ failure_info[i].module = threads[t].cls.module
                    /\ failure_info[i].class = threads[t].cls.name

\* C19: every entry of the caller's remapping is in the unpickler's remapping
\* as the caller gave it, until the end of the load: no known fix replaces it.
C19_CallerPrecedence ==
    (LoadsDone /\ (result.by # "" \/ result.errors # <<>>))
        => \A k \in DOMAIN call.remapping :
              /\ k \in DOMAIN result.remapping
              /\ result.remapping[k] = call.remapping[k]

\* _remap_module for a reference to cls, with a remapping of one entry; the
\* import of target; the three values that name target.
Remapped(key, value, cls) ==
    _remap_module(key :> value, cls.module, cls.name, sysmodules, 1)

Imported(target) == Import(target.module, target.name, sysmodules, 1)

Forms(target) ==
    {StrVal(Key(target.module, target.name)), TupleVal(target.module, target.name)}

\* The class the remapping of the call names for Bar.
MatForms == Forms(Mat) \cup {TypeVal(Mat)}

AllMethods == {"pickle", "dill", "auto"}

StrategyNext ==
    \/ \E s \in Strings, d \in LoadDie, r \in FileRemappings, m \in AllMethods,
          a \in BOOLEAN : LoadStr(s, d, r, m, a)
    \/ Return
    \/ \E m \in Removable : RemoveModule(m)

StrategySpec == Init /\ [][StrategyNext]_vars

\* The strategies the call attempted, in the order of the attempts.
Tried == SelectSeq(log, LAMBDA x : x \notin ByteSteps)

\* C21: the strategies attempted are the first ones of the list, in the order
\* of the list and each once; every one before the last attempted has its
\* error recorded under its name, in that order; the strategy that returned
\* is the last one attempted; and when none returned every strategy of the
\* list was attempted and has its error recorded.
C21_StrategyOrder ==
    LoadsDone
        => /\ IsPrefix(Tried, Chain)
           /\ \A i \in DOMAIN result.errors : result.errors[i].unpickler = Tried[i]
           /\ result.by # ""
                 => /\ Tried # <<>> /\ Tried[Len(Tried)] = result.by
                    /\ Len(result.errors) = Len(Tried) - 1
           /\ (result.by = "" /\ result.filestr # <<>>)
                 => /\ Tried = Chain
                    /\ Len(result.errors) = Len(Chain)

\* The renaming strategy has returned the class of a known fix after the
\* three strict strategies raised, and Ultrarobust was not attempted.
C21_Witness ==
    /\ LoadsDone /\ call.method = "pickle" /\ call.die = "False" /\ call.auto_remap
    /\ result.by = "Robust (renaming)"
    /\ Tried = <<"Pickle", "Pandas", "Encoded Pickle", "Robust (renaming)">>
    /\ Len(result.errors) = 3
    /\ Len(Chain) = 5

\* The strict strategies the call attempted, and the pickle family.
StrictTried == SelectSeq(Tried, LAMBDA x : x \notin Permissive)

PickleFamily == {"Pickle", "Pandas", "Encoded Pickle"}

\* The strict list the claim gives to each method.
StrictList ==
    CASE call.method = "pickle" -> <<"Pickle", "Pandas", "Encoded Pickle">>
      [] call.method = "dill" -> <<"Dill">>
      [] OTHER -> <<"Pickle", "Pandas", "Dill", "Encoded Pickle">>

\* No strict strategy returned, though the string was read.
StrictExhausted ==
    LoadsDone /\ result.filestr # <<>> /\ result.by \in {""} \cup Permissive

\* C22 as stated: with a method that takes both families, every strategy of
\* the pickle family is attempted before Dill.
C22_PickleFamilyFirst ==
    StrictExhausted
        => \A i, j \in DOMAIN Tried :
              (Tried[i] = "Dill" /\ Tried[j] \in PickleFamily) => j < i

\* C22: the strict strategies attempted are the first ones of Pickle, Pandas,
\* Encoded Pickle with method 'pickle', of Dill alone with method 'dill', and
\* of Pickle, Pandas, Dill, Encoded Pickle with any other method; when none
\* of them returned, they are that whole list.
C22_StrictLists ==
    /\ LoadsDone => IsPrefix(StrictTried, StrictList)
    /\ StrictExhausted => StrictTried = StrictList

\* A strict load with method 'auto' has raised after its four strategies.
C22_Witness ==
    /\ LoadsDone /\ call.method = "auto" /\ call.die = "True"
    /\ result.raised = "Exception"
    /\ Tried = <<"Pickle", "Pandas", "Dill", "Encoded Pickle">>

\* The permissive strategies the call attempted, and the one of them that
\* uses the remapping for this call.
PermissiveTried == SelectSeq(Tried, LAMBDA x : x \in Permissive)

RemappingAware == IF call.auto_remap THEN "Robust (renaming)" ELSE "Robust"

\* C23: with die true no permissive strategy is attempted.  With die false
\* (or None) the permissive strategies attempted are the first ones of the
\* remapping-aware one ('Robust (renaming)' with auto_remap, 'Robust'
\* without) and Ultrarobust, in that order; one is attempted once every
\* strict strategy has raised, and only then; Ultrarobust is attempted once
\* the remapping-aware one has raised, and only then.
C23_PermissiveLast ==
    LoadsDone
        => /\ call.die = "True" => PermissiveTried = <<>>
           /\ IsPrefix(PermissiveTried, <<RemappingAware, "Ultrarobust">>)
           /\ PermissiveTried # <<>>
                 => /\ Tried = StrictList \o PermissiveTried
                    /\ \A i \in DOMAIN StrictList :
                          result.errors[i].unpickler = StrictList[i]
           /\ (StrictExhausted /\ call.die # "True") => PermissiveTried # <<>>
           /\ Len(PermissiveTried) = 2
                 => result.errors[Len(StrictList) + 1].unpickler = RemappingAware
           /\ (PermissiveTried = <<RemappingAware>> /\ call.die # "True")
                 => result.by = RemappingAware

\* Ultrarobust has returned after 'Robust', without auto_remap, raised after
\* the three strict strategies.
C23_Witness ==
    /\ LoadsDone /\ call.die = "False" /\ ~call.auto_remap /\ call.method = "pickle"
    /\ result.by = "Ultrarobust"
    /\ Tried = <<"Pickle", "Pandas", "Encoded Pickle", "Robust", "Ultrarobust">>
    /\ Len(result.errors) = 4

\* C24: when the stream refers to a class that the resolver of the
\* remapping-aware strategy cannot resolve, that strategy does not raise: it
\* returns the object with the plain sentinel Failed in the place of the
\* class, and the ledger has one more record, for that class.
C24_RobustSentinel ==
    \A cls \in Attrs, h \in Holders :
        (/\ LoadsDone /\ call.die \in {"None", "False"}
         /\ result.filestr = dumps(Hold(h, Inst(cls)), PickleProtocol)
         /\ Unresolvable(cls))
            => /\ \A i \in DOMAIN result.errors :
                     result.errors[i].unpickler # RemappingAware
               /\ result.by = RemappingAware
               /\ Returned(Hold(h, Inst(FailedClass)))
               /\ OneMoreRecord(cls)

\* --------------------------------------------- the steps of _load_filestr

\* The byte strings of loadstr here: those of Strings, and a gzip string
\* that has lost its end.
CutShort(b) == SubSeq(b, 1, Len(b) - 1)

ByteStrings ==
    Strings \cup {CutShort(compressed("gzip", dumps(o, PickleProtocol))) : o \in StringObjects}

\* Plain data is saved in each container and loaded from a file, and byte
\* strings are loaded, with the settings of a strict load.
ByteSourceNext ==
    \/ \E f \in CallerNames, o \in PlainObjects, c \in Containers :
          Save(f, o, "pickle", c, "False", TRUE)
    \/ \E f \in FileNames : Load(f, "True", EmptyDict, "pickle", TRUE, {})
    \/ \E s \in ByteStrings : LoadStr(s, "True", EmptyDict, "pickle", TRUE)
    \/ Return

ByteSourceSpec == Init /\ [][ByteSourceNext]_vars

\* The byte source of the call as _load_filestr opens it, and the steps the
\* call attempted.
Source ==
    IF call.filename.kind = "filename" THEN Filename(LoadPath) ELSE call.filename

Steps == SelectSeq(log, LAMBDA x : x \in ByteSteps)

\* The call raised out of _load_filestr with this type.
ByteError(type) == result.raised = type /\ Tried = <<>>

\* C25: the steps of _load_filestr are attempted in the order gzip, zstd,
\* binary, text.  zstd is attempted only when gzip raised BadGzipFile, binary
\* only when zstd raised too, text only when binary raised too; the last
\* step attempted, when it succeeded, supplies the string.  An error of the
\* gzip step other than FileNotFoundError and BadGzipFile is raised with
\* its type after that one step; when every step failed, BadGzipFile is
\* raised.
C25_FallbackOrder ==
    LoadsDone
        => /\ Steps # <<>> /\ IsPrefix(Steps, <<"gzip", "zstd", "binary", "text">>)
           /\ Len(Steps) = 1
                 => IF GzipRead(Source, fs).ok
                    THEN result.filestr = GzipRead(Source, fs).data /\ Tried # <<>>
                    ELSE /\ GzipRead(Source, fs).exc # "BadGzipFile"
                         /\ ByteError(GzipRead(Source, fs).exc)
           /\ Len(Steps) >= 2 => GzipRead(Source, fs).exc = "BadGzipFile"
           /\ Len(Steps) = 2
                 => /\ ZstdRead(Source, fs).ok
                    /\ result.filestr = ZstdRead(Source, fs).data /\ Tried # <<>>
           /\ Len(Steps) >= 3 => ~ZstdRead(Source, fs).ok
           /\ Len(Steps) = 3
                 => /\ Open(Source, fs).ok
                    /\ result.filestr = Open(Source, fs).data /\ Tried # <<>>
           /\ Len(Steps) = 4 => ~Open(Source, fs).ok /\ ByteError("BadGzipFile")

\* A file saved without compression was read by the binary step, after gzip
\* and zstd raised.
C25_Witness ==
    /\ LoadDone /\ Steps = <<"gzip", "zstd", "binary">>
    /\ lastsave.op = "save" /\ lastsave.compression = "none"
    /\ result.filestr = dumps(lastsave.obj, PickleProtocol)
    /\ Returned(lastsave.obj)

\* ------------------------------------------------- the serializer of save

\* The objects saved here: plain data, an instance and a list that holds
\* one after plain data; the methods and the values of die.
SerializedObjects == {IntObj(0), Inst(Bar), ListObj(<<IntObj(7), Inst(Bar)>>)}

SaveMethods == {"pickle", "dill"}

SaveDie == {"False", "True"}

SerializeNext ==
    \/ \E o \in SerializedObjects, m \in SaveMethods, c \in Containers, d \in SaveDie :
          Save(CleanName, o, m, c, d, TRUE)
    \/ Return
    \/ \E m \in Removable : RemoveModule(m)

SerializeSpec == Init /\ [][SerializeNext]_vars

SaveDone == pc = "done" /\ call.op = "save"

\* The routines serialize attempted, the target of the save, and what dill
\* alone writes through the stream of the call's compression.
Routines == SelectSeq(log, LAMBDA x : x \in {"pickle", "dill"})

SavePath == makefilepath(call.filename.name, TRUE)

DillOutput ==
    compressed(call.compression, dilldumps(call.obj, DillProtocol, sysmodules))

\* C26: with method 'pickle', pickle is attempted first; when it succeeds
\* dill is not attempted; when it raises and die is True the error is raised
\* and dill is not attempted; when it raises and die is not True dill is
\* attempted next and writes to the target, and the save returns.  With
\* method 'dill', dill alone is attempted.
C26_SerializerFallback ==
    SaveDone
        => /\ call.method = "pickle"
                 => /\ Routines # <<>> /\ Routines[1] = "pickle"
                    /\ picklable(call.obj, sysmodules)
                          => Routines = <<"pickle">> /\ result.raised = ""
                    /\ (~picklable(call.obj, sysmodules) /\ call.die = "True")
                          => Routines = <<"pickle">> /\ result.raised = "PicklingError"
                    /\ (~picklable(call.obj, sysmodules) /\ call.die # "True")
                          => /\ Routines = <<"pickle", "dill">>
                             /\ result.raised = ""
                             /\ fs[SavePath] # compressed(call.compression, <<>>)
           /\ call.method = "dill"
                 => /\ Routines = <<"dill">>
                    /\ result.raised = ""
                    /\ fs[SavePath] = DillOutput

\* pickle has raised for an instance of a class that cannot be imported, die
\* was False, and dill was attempted next and wrote the file.
C26_Witness ==
    /\ SaveDone /\ call.method = "pickle" /\ call.die = "False"
    /\ call.obj = Inst(Bar) /\ Unimportable(Bar)
    /\ Routines = <<"pickle", "dill">>
    /\ result.raised = ""
    /\ fs[SavePath] # NoFile

\* C29: when pickle has raised in a save and dill was attempted after it,
\* the target holds what dill alone writes through the stream, and nothing
\* of the pickle that failed: no opcode of protocol 4 is in it.
C29_NoPartialPickle ==
    (SaveDone /\ Routines = <<"pickle", "dill">>)
        => /\ fs[SavePath] = DillOutput
           /\ \A i \in DOMAIN fs[SavePath] :
                 fs[SavePath][i] # Tok("PROTO", PickleProtocol, <<>>, "")

\* The fallback was taken for a list whose first item pickle can save and
\* whose second it cannot, written with no compression.
C29_Witness ==
    /\ SaveDone /\ call.method = "pickle" /\ call.compression = "none"
    /\ call.obj = ListObj(<<IntObj(7), Inst(Bar)>>) /\ Unimportable(Bar)
    /\ Routines = <<"pickle", "dill">>
    /\ fs[SavePath] = dilldumps(call.obj, DillProtocol, sysmodules)

\* ------------------------------------------------- the labels of the ledger

\* The calls of makefailed in a row.
MaxFailures == 3

\* makefailed(module_name, name, error, universal=...), called again and
\* again.
Synthesize(cls, universal) ==
    /\ Len(failure_info) < MaxFailures
    /\ MakeFailedEnd(makefailed(failure_info, cls.module, cls.name,
                                <<"No module named">> \o cls.module, universal))
    /\ UNCHANGED <<fs, sysmodules, pc, call, result, log, lastsave, ncalls, threads>>

LedgerNext == \E cls \in Attrs, universal \in BOOLEAN : Synthesize(cls, universal)

LedgerSpec == Init /\ [][LedgerNext]_vars

\* C27: each call of makefailed, for Failed or for UniversalFailed, leaves
\* the one ledger with exactly one more record, at its end, labelled with
\* the length of the ledger after the call; so the labels of the ledger are
\* 1 .. n in the order of the calls.
C27_LedgerLabels ==
    [][/\ Len(failure_info') = Len(failure_info) + 1
       /\ IsPrefix(failure_info, failure_info')
       /\ failure_info'[Len(failure_info')].key = Len(failure_info')
       /\ \A i \in DOMAIN failure_info' : failure_info'[i].key = i]_vars

\* Three calls have left three records, labelled 1, 2 and 3; the last call
\* was for Failed and for another class than the one before.
C27_Witness ==
    /\ Len(failure_info) = 3
    /\ \A i \in 1..3 : failure_info[i].key = i
    /\ failure_info[2].class # failure_info[3].class
    /\ sentinel.step = "type" /\ sentinel.cls = FailedClass

\* The known fix that holds key k for a class the stream of the call refers
\* to, merged as it is in known_fixes.
FixedInThisLoad(k) ==
    \E i \in DOMAIN result.filestr :
        LET tk == result.filestr[i]
        IN  /\ tk.op = "GLOBAL"
            /\ <<tk.module, tk.name>> \in DOMAIN known_fixes
            /\ k \in DOMAIN known_fixes[<<tk.module, tk.name>>]
            /\ result.remapping[k] = known_fixes[<<tk.module, tk.name>>][k]

\* C28: once the strategies of a load have run, the caller's remapping is
\* what the caller gave, and the table of the last unpickler holds nothing
\* but the caller's entries and, with auto_remap, the known fixes of classes
\* of this load's stream, as known_fixes has them: nothing is left of the
\* fixes of an earlier load.
C28_TablePerCall ==
    (LoadsDone /\ (result.by # "" \/ result.errors # <<>>))
        => /\ result.caller = call.remapping
           /\ \A k \in DOMAIN result.remapping :
                 \/ k \in DOMAIN call.remapping /\ result.remapping[k] = call.remapping[k]
                 \/ call.auto_remap /\ FixedInThisLoad(k)

\* A second load, of an instance of foo.Bar, has ended with the caller's
\* remapping for its table, after a load that met Int64Index, the class of a
\* known fix, and left its record in the ledger.
C28_Witness ==
    /\ LoadsDone /\ ncalls = 2 /\ call.auto_remap
    /\ \E i \in DOMAIN call.fi : call.fi[i].class = Int64Index.name
    /\ result.filestr = dumps(Inst(Bar), PickleProtocol)
    /\ result.by = "Robust (renaming)"
    /\ call.remapping # EmptyDict
    /\ result.remapping = call.remapping
    /\ result.caller = call.remapping

\* C30: a save with a compression that is not gzip, zstd or none raises
\* ValueError and leaves the files as they were before the call: the target
\* is not made, emptied or written.
C30_InvalidCompressionUntouched ==
    (SaveDone /\ ~valid_compression(call.compression))
        => /\ result.raised = "ValueError"
           /\ fs = call.files

====
